---- MODULE Spec2Model ----
(***************************************************************************)
(* Model of api/r.js: the redirect endpoint.  One request is handled per   *)
(* behaviour.  Strings are sequences of one-character strings, so that     *)
(* decodeURIComponent, the scheme regex, new URL(...) and URL.toString()   *)
(* are computed character by character.                                    *)
(*                                                                         *)
(* Character domain of a destination: the letters of Lower and Upper, the  *)
(* digits "2" and "5", and the punctuation : / . % and the double quote.   *)
(* None of the letters is a hexadecimal digit, so the percent escapes that *)
(* can be written are %22 %25 %52 %55, which decode to the double quote,   *)
(* the percent sign, R and U: the domain is closed under decoding.  The    *)
(* parts of the URL parser the domain cannot reach (userinfo, query,       *)
(* fragment, IPv6, whitespace stripping, non-ASCII) are not modelled; a    *)
(* host that ends in a number (the IPv4 branch) is reported as outside the *)
(* domain and DomainClosed checks that no input reaches it.                *)
(***************************************************************************)
EXTENDS Integers, Sequences, FiniteSets, TLC

\* ------------------------------------------------------------------ bounds
\* Deepest nesting of percent-encoding of "%" in a request's dest
\* ("%", "%25", "%2525", ...).
MaxEsc == 2

\* ------------------------------------------------------------- characters
Lower == {"h", "t", "p", "s", "x", "o", "i", "n", "r", "u"}

Upper == {"H", "T", "P", "S", "X", "R", "U"}

Digits == {"2", "5"}

Letters == Lower \cup Upper

LowerOf == ("H" :> "h") @@ ("T" :> "t") @@ ("P" :> "p") @@ ("S" :> "s") @@
           ("X" :> "x") @@ ("R" :> "r") @@ ("U" :> "u")

toLowerCase(s) == [i \in 1..Len(s) |-> IF s[i] \in Upper THEN LowerOf[s[i]] ELSE s[i]]

\* Value of a hexadecimal digit of the domain.
HexVal == ("2" :> 2) @@ ("5" :> 5)

IsHex(c) == c \in DOMAIN HexVal

\* The character with a given code, for the codes two domain digits can spell.
CharOfCode == (34 :> "\"") @@ (37 :> "%") @@ (82 :> "R") @@ (85 :> "U")

PctByte(h, l) == CharOfCode[16 * HexVal[h] + HexVal[l]]

\* JavaScript's null and undefined, as values no string of characters equals.
Null == <<"<null>">>

Undefined == <<"<undefined>">>

URIError == "<URIError>"

\* ------------------------------------------------------- string helpers
Drop(s, n) == SubSeq(s, n + 1, Len(s))

\* Index of the first occurrence of character c in s, 0 when there is none.
IndexOf(s, c) ==
    IF \E i \in 1..Len(s) : s[i] = c
    THEN CHOOSE i \in 1..Len(s) : s[i] = c /\ \A j \in 1..(i - 1) : s[j] # c
    ELSE 0

RECURSIVE split(_, _)
\* String.prototype.split on a one-character separator.
split(s, sep) ==
    LET k == IndexOf(s, sep)
    IN  IF k = 0 THEN <<s>>
        ELSE <<SubSeq(s, 1, k - 1)>> \o split(Drop(s, k), sep)

RECURSIVE join(_, _)
join(parts, sep) ==
    IF Len(parts) = 0 THEN <<>>
    ELSE IF Len(parts) = 1 THEN parts[1]
    ELSE parts[1] \o <<sep>> \o join(Tail(parts), sep)

RECURSIVE trim(_)
\* String.prototype.trim (the only whitespace of the domain is the space).
trim(s) ==
    IF Len(s) = 0 THEN s
    ELSE IF s[1] = " " THEN trim(Tail(s))
    ELSE IF s[Len(s)] = " " THEN trim(SubSeq(s, 1, Len(s) - 1))
    ELSE s

\* String.prototype.endsWith
endsWith(s, suffix) ==
    Len(suffix) <= Len(s) /\ SubSeq(s, Len(s) - Len(suffix) + 1, Len(s)) = suffix

\* ------------------------------------------------- decodeURIComponent
RECURSIVE DecodeFrom(_, _)
\* The decoded characters of s from position i on; the element URIError
\* marks a "%" that two hexadecimal digits do not follow.
DecodeFrom(s, i) ==
    IF i > Len(s) THEN <<>>
    ELSE IF s[i] # "%" THEN <<s[i]>> \o DecodeFrom(s, i + 1)
    ELSE IF i + 2 <= Len(s) /\ IsHex(s[i + 1]) /\ IsHex(s[i + 2])
    THEN <<PctByte(s[i + 1], s[i + 2])>> \o DecodeFrom(s, i + 3)
    ELSE <<URIError>>

\* decodeURIComponent(s) throws: the marker, if any, is the last element.
decodeThrows(s) ==
    LET d == DecodeFrom(s, 1) IN Len(d) > 0 /\ d[Len(d)] = URIError

decodeURIComponent(s) == DecodeFrom(s, 1)

\* -------------------------------------------------- the scheme regex
SchemeChars == Letters \cup Digits \cup {"+", ".", "-"}

RECURSIVE SchemeLen(_, _)
\* Length of the longest prefix of s matching [a-zA-Z][a-zA-Z0-9+.-]*,
\* given that s[1] is a letter and scanning from position i.
SchemeLen(s, i) ==
    IF i <= Len(s) /\ s[i] \in SchemeChars THEN SchemeLen(s, i + 1) ELSE i - 1

\* /^[a-zA-Z][a-zA-Z0-9+.-]*:\/\//.test(s)
HasScheme(s) ==
    /\ Len(s) >= 1
    /\ s[1] \in Letters
    /\ LET k == SchemeLen(s, 2)
       IN  Len(s) >= k + 3 /\ SubSeq(s, k + 1, k + 3) = <<":", "/", "/">>

\* ------------------------------------------------------------ new URL
\* Percent-decoding of a host: an escape that is not two hexadecimal digits
\* is left as it is (unlike decodeURIComponent, which throws).
RECURSIVE HostPercentDecode(_)
HostPercentDecode(s) ==
    IF Len(s) = 0 THEN <<>>
    ELSE IF s[1] = "%" /\ Len(s) >= 3 /\ IsHex(s[2]) /\ IsHex(s[3])
    THEN <<PctByte(s[2], s[3])>> \o HostPercentDecode(Drop(s, 3))
    ELSE <<s[1]>> \o HostPercentDecode(Tail(s))

RECURSIVE StripSlashes(_)
\* The parser's "special authority ignore slashes" state.
StripSlashes(s) ==
    IF Len(s) > 0 /\ s[1] = "/" THEN StripSlashes(Tail(s)) ELSE s

AllDigits(s) == \A i \in 1..Len(s) : s[i] \in Digits

RECURSIVE DecimalValue(_)
DecimalValue(s) ==
    IF Len(s) = 0 THEN 0
    ELSE 10 * DecimalValue(SubSeq(s, 1, Len(s) - 1)) + HexVal[s[Len(s)]]

\* The parser's "ends in a number" check, for decimal labels.
EndsInNumber(host) ==
    LET parts == split(host, ".")
        kept  == IF Len(parts) > 1 /\ parts[Len(parts)] = <<>>
                 THEN SubSeq(parts, 1, Len(parts) - 1) ELSE parts
        last  == kept[Len(kept)]
    IN  Len(last) > 0 /\ AllDigits(last)

\* The IPv4 parser fails on a part that is empty or not a number.
IPv4Numeric(host) ==
    LET parts == split(host, ".")
        kept  == IF Len(parts) > 1 /\ parts[Len(parts)] = <<>>
                 THEN SubSeq(parts, 1, Len(parts) - 1) ELSE parts
    IN  Len(kept) <= 4 /\ \A i \in 1..Len(kept) : Len(kept[i]) > 0 /\ AllDigits(kept[i])

\* Percent-encoding of a path segment: of the domain only the double quote
\* is in the path percent-encode set; "%" is copied as it is.
RECURSIVE EncodeSegment(_)
EncodeSegment(s) ==
    IF Len(s) = 0 THEN <<>>
    ELSE IF s[1] = "\"" THEN <<"%", "2", "2">> \o EncodeSegment(Tail(s))
    ELSE <<s[1]>> \o EncodeSegment(Tail(s))

RECURSIVE PathSegments(_, _, _)
\* The parser's path state over the segments segs[i..]; acc is the URL's
\* path so far.  Every segment but the last is ended by "/".
PathSegments(segs, i, acc) ==
    IF i > Len(segs) THEN acc
    ELSE LET seg    == segs[i]
             atEnd  == i = Len(segs)
             popped == IF Len(acc) > 0 THEN SubSeq(acc, 1, Len(acc) - 1) ELSE acc
         IN  IF seg = <<".", ".">>
             THEN PathSegments(segs, i + 1, IF atEnd THEN Append(popped, <<>>) ELSE popped)
             ELSE IF seg = <<".">>
             THEN PathSegments(segs, i + 1, IF atEnd THEN Append(acc, <<>>) ELSE acc)
             ELSE PathSegments(segs, i + 1, Append(acc, EncodeSegment(seg)))

DefaultPort(scheme) == IF scheme = <<"h", "t", "t", "p">> THEN 80 ELSE 443

IsHttpScheme(scheme) ==
    scheme \in {<<"h", "t", "t", "p">>, <<"h", "t", "t", "p", "s">>}

Failure == [failure |-> TRUE, domain |-> TRUE, scheme |-> <<>>, host |-> <<>>,
            port |-> <<>>, path |-> <<>>]

\* new URL(s) for a string s that matches the scheme regex.  failure: the
\* constructor throws.  For a scheme other than http and https only the
\* scheme is computed: u.protocol is then never "http:" or "https:", and
\* whether the constructor throws or not normalizeDest returns null.
URLParse(s) ==
    LET k         == SchemeLen(s, 2)
        scheme    == toLowerCase(SubSeq(s, 1, k))
        rest      == StripSlashes(Drop(s, k + 3))
        slash     == IndexOf(rest, "/")
        authority == IF slash = 0 THEN rest ELSE SubSeq(rest, 1, slash - 1)
        pathText  == IF slash = 0 THEN <<>> ELSE Drop(rest, slash)
        colon     == IndexOf(authority, ":")
        hostText  == IF colon = 0 THEN authority ELSE SubSeq(authority, 1, colon - 1)
        portText  == IF colon = 0 THEN <<>> ELSE Drop(authority, colon)
        host      == toLowerCase(HostPercentDecode(hostText))
        portNull  == portText = <<>> \/ DecimalValue(portText) = DefaultPort(scheme)
    IN  IF ~IsHttpScheme(scheme)
        THEN [Failure EXCEPT !.failure = FALSE, !.scheme = scheme]
        ELSE IF hostText = <<>> THEN Failure
        ELSE IF \E i \in 1..Len(host) : host[i] = "%" THEN Failure
        ELSE IF ~AllDigits(portText) THEN Failure
        ELSE IF DecimalValue(portText) > 65535 THEN Failure
        ELSE IF EndsInNumber(host) /\ ~IPv4Numeric(host) THEN Failure
        ELSE [failure |-> FALSE,
              domain  |-> ~EndsInNumber(host),
              scheme  |-> scheme,
              host    |-> host,
              port    |-> IF portNull THEN <<>> ELSE portText,
              path    |-> PathSegments(split(pathText, "/"), 1, <<>>)]

protocol(u) == u.scheme \o <<":">>

hostname(u) == u.host

\* URL.prototype.toString (the href) of an http or https URL.
toString(u) ==
    u.scheme \o <<":", "/", "/">> \o u.host
    \o (IF u.port = <<>> THEN <<>> ELSE <<":">> \o u.port)
    \o <<"/">> \o join(u.path, "/")

\* -------------------------------------------------------- normalizeDest
Https == <<"h", "t", "t", "p", "s", ":", "/", "/">>

\* if (!raw): undefined and the empty string are falsy.
Falsy(raw) == raw = Undefined \/ raw = <<>>

normalizeDestNoProtocolCheck(raw) ==
    IF Falsy(raw) THEN Null
    ELSE LET decoded == IF decodeThrows(raw) THEN raw ELSE decodeURIComponent(raw)
             schemed == IF HasScheme(decoded) THEN decoded ELSE Https \o decoded
             u       == URLParse(schemed)
         IN  IF u.failure THEN Null
             ELSE IF ~IsHttpScheme(u.scheme) THEN schemed
             ELSE toString(u)

normalizeDest(raw) ==
    IF Falsy(raw) THEN Null
    ELSE LET decoded == IF decodeThrows(raw) THEN raw ELSE decodeURIComponent(raw)
             schemed == IF HasScheme(decoded) THEN decoded ELSE Https \o decoded
             u       == URLParse(schemed)
         IN  IF u.failure THEN Null
             ELSE IF protocol(u) \notin {<<"h", "t", "t", "p", ":">>,
                                         <<"h", "t", "t", "p", "s", ":">>}
             THEN Null
             ELSE toString(u)

\* ------------------------------------------------- encodeURIComponent
EscapeOf == (":" :> <<"%", "3", "A">>) @@ ("/" :> <<"%", "2", "F">>) @@
            ("%" :> <<"%", "2", "5">>) @@ ("\"" :> <<"%", "2", "2">>) @@
            ("?" :> <<"%", "3", "F">>)

RECURSIVE encodeURIComponent(_)
encodeURIComponent(s) ==
    IF Len(s) = 0 THEN <<>>
    ELSE (IF s[1] \in DOMAIN EscapeOf THEN EscapeOf[s[1]] ELSE <<s[1]>>)
         \o encodeURIComponent(Tail(s))

\* ------------------------------------------------------ the allowlist
\* allowed.split(',').map(s => s.trim()).filter(Boolean)
allowedList(allowed) ==
    LET parts   == split(allowed, ",")
        trimmed == [i \in 1..Len(parts) |-> trim(parts[i])]
    IN  SelectSeq(trimmed, LAMBDA a : a # <<>>)

hostMatchesSubstring(host, a) ==
    host = a \/ endsWith(host, a)

\* host === a || host.endsWith('.' + a)
hostMatches(host, a) ==
    host = a \/ endsWith(host, <<".">> \o a)

\* allowedList.some(...)
some(list, host) == \E i \in 1..Len(list) : hostMatches(host, list[i])

\* The hostname of a normalized destination: new URL(dest).hostname.
destHostname(d) == hostname(URLParse(d))

\* ------------------------------------------------------------ requests
RECURSIVE Pct(_)
\* "%" percent-encoded k times: %, %25, %2525, ...
Pct(k) == IF k = 0 THEN <<"%">> ELSE Pct(k - 1) \o <<"2", "5">>

SchemePrefixes ==
    { <<>>,
      <<"h", "t", "t", "p", "s", ":", "/", "/">>,
      <<"H", "T", "T", "P", ":", "/", "/">>,
      <<"s", "s", "h", ":", "/", "/">> }

HostTexts ==
    { <<"h", "o", "s", "t", ".", "i", "o">>,
      <<"s", ".", "h", "o", "s", "t", ".", "i", "o">>,
      <<"x", "h", "o", "s", "t", ".", "i", "o">>,
      <<"X", ".", "n", "u">>,
      <<>> }

TailTexts ==
    { <<>>, <<"/", "p">>, <<":", "2", "5">>, <<":", "x">>,
      <<"/", "p", "/", ".", ".", "/", "r">>, <<"/", "\"">> }
    \cup { <<"/">> \o Pct(k) : k \in 0..MaxEsc }
    \cup { <<"/">> \o Pct(k) \o <<"5", "2">> : k \in 0..MaxEsc }

\* The dest query parameter: absent, empty, or a string: every scheme prefix
\* and tail around one host, and every host with and without a path.
RawDests ==
    {Undefined, <<>>}
    \cup { p \o <<"h", "o", "s", "t", ".", "i", "o">> \o t :
               p \in SchemePrefixes, t \in TailTexts }
    \cup { h \o t : h \in HostTexts, t \in {<<>>, <<"/", "p">>, <<":", "2", "5">>} }

Rids == { <<>>, <<"r", "2">> }

\* process.env.ALLOWED_DOMAINS || ''
AllowedDomainsValues ==
    { <<>>,
      <<"h", "o", "s", "t", ".", "i", "o">>,
      <<" ", "n", "u", ",", ",", " ", "h", "o", "s", "t", ".", "i", "o", " ">>,
      <<"i", "o">>,
      <<",">>,
      <<" ">> }

\* process.env.TRACKER_URL || ''
TrackerUrlValues ==
    { <<>>, <<"t", ".", "i", "o">>, <<"t", ".", "i", "o", "?", "k">> }

DEFAULT_TRACK_TIMEOUT_MS == 700

\* --------------------------------------------------------------- state
VARIABLES
    rawDest,        \* req.query.dest
    rid,            \* req.query.rid
    ALLOWED_DOMAINS,
    TRACKER_URL,
    pc,             \* the handler's position
    dest,           \* normalizeDest(rawDest), once computed
    statusCode,     \* res.statusCode
    headers,        \* res's headers: Location and Content-Type
    body,           \* what res.end was given, once it has emitted
    endCount,       \* how many times res.end has emitted a response
    timeout,        \* the timer of line 76: its state and delay
    fetchState,     \* the outbound call
    fetchUrl,       \* the URL of the outbound call
    fetchCalls,     \* how many times fetch was called
    caught,         \* the outer catch (line 92) was entered
    fault,          \* what raised the exception caught there, if anything did
    swallowed,      \* the catch of line 98 swallowed a failure of writing the 500
    promise         \* the promise the async handler returned

vars == <<rawDest, rid, ALLOWED_DOMAINS, TRACKER_URL, pc, dest, statusCode, headers,
          body, endCount, timeout, fetchState, fetchUrl, fetchCalls, caught,
          fault, swallowed, promise>>

request == <<rawDest, rid, ALLOWED_DOMAINS, TRACKER_URL>>

tracker == <<timeout, fetchState, fetchUrl, fetchCalls>>

response == <<statusCode, headers, body, endCount>>

Unset == "<unset>"

\* A header that was not set.
NoHeader == <<"<unset>">>

\* What res.end is given: a plain text, or the redirect page with its link.
Plain(text) == [text |-> text, href |-> <<>>]

RedirectPage(d) == [text |-> "Redirecting... click here", href |-> d]

TextPlain == "text/plain; charset=utf-8"

TextHtml == "text/html; charset=utf-8"

NoTimer == [state |-> "none", ms |-> 0]

\* The outcomes of a block of response-writing calls: every call returns,
\* or setHeader throws, or res.end throws (a call that throws emits nothing).
WriteOutcomes == {"ok", "setHeaderThrows", "endThrows"}

Init ==
    /\ rawDest \in RawDests
    /\ rid \in Rids
    /\ ALLOWED_DOMAINS \in AllowedDomainsValues
    /\ TRACKER_URL \in TrackerUrlValues
    /\ pc = "start"
    /\ dest = Null
    /\ statusCode = 200
    /\ headers = [location |-> NoHeader, contentType |-> Unset]
    /\ body = Plain(Unset)
    /\ endCount = 0
    /\ timeout = NoTimer
    /\ fetchState = "none"
    /\ fetchUrl = <<>>
    /\ fetchCalls = 0
    /\ caught = FALSE
    /\ fault = "none"
    /\ swallowed = FALSE
    /\ promise = "pending"

\* ------------------------------------------------------------- actions
\* res.statusCode = code; res.setHeader('content-type', 'text/plain; ...');
\* res.end(text); return;   with outcome o of the calls.
WritePlain(code, text, o) ==
    /\ statusCode' = code
    /\ headers' = IF o = "setHeaderThrows" THEN headers
                  ELSE [headers EXCEPT !.contentType = TextPlain]
    /\ IF o = "ok"
       THEN /\ body' = Plain(text)
            /\ endCount' = endCount + 1
            /\ pc' = "done"
            /\ promise' = "resolved"
            /\ UNCHANGED <<caught, fault>>
       ELSE /\ pc' = "catch"
            /\ caught' = TRUE
            /\ fault' = "write"
            /\ UNCHANGED <<body, endCount, promise>>

StartNoReturn ==
    /\ pc = "start"
    /\ IF Falsy(rawDest)
       THEN /\ statusCode' = 400
            /\ headers' = [headers EXCEPT !.contentType = TextPlain]
            /\ body' = Plain("Missing dest parameter")
            /\ endCount' = endCount + 1
            /\ pc' = "normalize"
       ELSE /\ pc' = "normalize"
            /\ UNCHANGED response
    /\ UNCHANGED <<request, dest, tracker, swallowed, caught, fault, promise>>

\* Lines 29-36: read the query; a missing dest is answered 400.
Start ==
    /\ pc = "start"
    /\ IF Falsy(rawDest)
       THEN \E o \in WriteOutcomes : WritePlain(400, "Missing dest parameter", o)
       ELSE /\ pc' = "normalize"
            /\ UNCHANGED <<response, caught, fault, promise>>
    /\ UNCHANGED <<request, dest, tracker, swallowed>>

\* Lines 38-44: normalize dest; an invalid dest is answered 400.
Normalize ==
    /\ pc = "normalize"
    /\ dest' = normalizeDest(rawDest)
    /\ IF dest' = Null
       THEN \E o \in WriteOutcomes : WritePlain(400, "Invalid dest URL", o)
       ELSE /\ pc' = "allow"
            /\ UNCHANGED <<response, caught, fault, promise>>
    /\ UNCHANGED <<request, tracker, swallowed>>

\* Lines 48-62: the optional allowlist; a host off the list is answered 403.
Allow ==
    /\ pc = "allow"
    /\ IF trim(ALLOWED_DOMAINS) # <<>>
          /\ ~some(allowedList(ALLOWED_DOMAINS), destHostname(dest))
       THEN \E o \in WriteOutcomes : WritePlain(403, "Destination domain not allowed", o)
       ELSE /\ pc' = "track"
            /\ UNCHANGED <<response, caught, fault, promise>>
    /\ UNCHANGED <<request, dest, tracker, swallowed>>

\* Lines 69-72: the tracker request's URL.
trackerUrl ==
    TRACKER_URL
    \o (IF IndexOf(TRACKER_URL, "?") = 0 THEN <<"?">> ELSE <<"&">>)
    \o <<"action=track&rid=">> \o encodeURIComponent(rid)
    \o <<"&dest=">> \o encodeURIComponent(dest)

\* The outcomes of the call fetch(...) of line 79: it returns a promise, or
\* it throws synchronously (a runtime whose fetch is not callable).
FetchCallOutcomes == {"returns", "throws"}

TrackNoInnerCatch ==
    /\ pc = "track"
    /\ IF TRACKER_URL = <<>>
       THEN /\ pc' = "redirect"
            /\ UNCHANGED <<tracker, caught>>
       ELSE \E o \in FetchCallOutcomes :
            /\ fetchUrl' = trackerUrl
            /\ timeout' = [state |-> "armed", ms |-> DEFAULT_TRACK_TIMEOUT_MS]
            /\ fetchCalls' = fetchCalls + 1
            /\ IF o = "returns"
               THEN fetchState' = "inflight" /\ pc' = "await" /\ caught' = caught
               ELSE fetchState' = "threw" /\ pc' = "catch" /\ caught' = TRUE
    /\ UNCHANGED <<request, dest, response, fault, swallowed, promise>>

TrackAlways ==
    /\ pc = "track"
    /\ \E o \in FetchCallOutcomes :
            /\ fetchUrl' = trackerUrl
            /\ timeout' = [state |-> "armed", ms |-> DEFAULT_TRACK_TIMEOUT_MS]
            /\ fetchCalls' = fetchCalls + 1
            /\ IF o = "returns"
               THEN fetchState' = "inflight" /\ pc' = "await"
               ELSE fetchState' = "threw" /\ pc' = "redirect"
    /\ UNCHANGED <<request, dest, response, caught, fault, swallowed, promise>>

\* Lines 65-79, up to the await: without TRACKER_URL the block is skipped;
\* with it the timer is armed and fetch is called.  A synchronous throw of
\* the call passes to the inner catch (line 81), past clearTimeout.
Track ==
    /\ pc = "track"
    /\ IF TRACKER_URL = <<>>
       THEN /\ pc' = "redirect"
            /\ UNCHANGED tracker
       ELSE \E o \in FetchCallOutcomes :
            /\ fetchUrl' = trackerUrl
            /\ timeout' = [state |-> "armed", ms |-> DEFAULT_TRACK_TIMEOUT_MS]
            /\ fetchCalls' = fetchCalls + 1
            /\ IF o = "returns"
               THEN fetchState' = "inflight" /\ pc' = "await"
               ELSE fetchState' = "threw" /\ pc' = "redirect"
    /\ UNCHANGED <<request, dest, response, caught, fault, swallowed, promise>>

\* The tracker answers (any status: fetch fulfils on non-2xx too).
TrackerRespond ==
    /\ fetchState = "inflight"
    /\ fetchState' = "fulfilled"
    /\ UNCHANGED <<request, pc, dest, response, timeout, fetchUrl, fetchCalls,
                   caught, fault, swallowed, promise>>

\* The call fails with a network error: the promise is rejected.
TrackerError ==
    /\ fetchState = "inflight"
    /\ fetchState' = "rejected"
    /\ UNCHANGED <<request, pc, dest, response, timeout, fetchUrl, fetchCalls,
                   caught, fault, swallowed, promise>>

TimerFireNoAbort ==
    /\ timeout.state = "armed"
    /\ pc \in {"await", "done"}
    /\ timeout' = [timeout EXCEPT !.state = "fired"]
    /\ UNCHANGED <<request, pc, dest, response, fetchState, fetchUrl, fetchCalls,
                   caught, fault, swallowed, promise>>

\* Line 76's callback: the timer fires and ac.abort() rejects the call in
\* flight.  Timers run only while the handler is suspended or has returned.
TimerFire ==
    /\ timeout.state = "armed"
    /\ pc \in {"await", "done"}
    /\ timeout' = [timeout EXCEPT !.state = "fired"]
    /\ fetchState' = IF fetchState = "inflight" THEN "aborted" ELSE fetchState
    /\ UNCHANGED <<request, pc, dest, response, fetchUrl, fetchCalls,
                   caught, fault, swallowed, promise>>

\* Lines 79-80: the awaited promise has settled (.catch absorbs a rejection);
\* clearTimeout.
Resume ==
    /\ pc = "await"
    /\ fetchState \in {"fulfilled", "rejected", "aborted"}
    /\ timeout' = IF timeout.state = "armed"
                  THEN [timeout EXCEPT !.state = "cleared"] ELSE timeout
    /\ pc' = "redirect"
    /\ UNCHANGED <<request, dest, response, fetchState, fetchUrl, fetchCalls,
                   caught, fault, swallowed, promise>>

\* Lines 87-91: the 302.
Redirect ==
    /\ pc = "redirect"
    /\ statusCode' = 302
    /\ \E o \in WriteOutcomes :
        /\ headers' = IF o = "setHeaderThrows" THEN headers
                      ELSE [location |-> dest, contentType |-> TextHtml]
        /\ IF o = "ok"
           THEN /\ body' = RedirectPage(dest)
                /\ endCount' = endCount + 1
                /\ pc' = "done"
                /\ promise' = "resolved"
                /\ UNCHANGED <<caught, fault>>
           ELSE /\ pc' = "catch"
                /\ caught' = TRUE
                /\ fault' = "write"
                /\ UNCHANGED <<body, endCount, promise>>
    /\ UNCHANGED <<request, dest, tracker, swallowed>>

\* An unexpected exception in the validation or the allowlist code
\* (lines 29-50), which passes to the outer catch.
Throw ==
    /\ pc \in {"start", "normalize", "allow"}
    /\ pc' = "catch"
    /\ caught' = TRUE
    /\ fault' = "internal"
    /\ UNCHANGED <<request, dest, response, tracker, swallowed, promise>>

CatchNoInnerTry ==
    /\ pc = "catch"
    /\ statusCode' = 500
    /\ \E o \in WriteOutcomes :
        /\ headers' = IF o = "setHeaderThrows" THEN headers
                      ELSE [headers EXCEPT !.contentType = TextPlain]
        /\ IF o = "ok"
           THEN body' = Plain("Server error") /\ endCount' = endCount + 1
                /\ promise' = "resolved"
           ELSE UNCHANGED <<body, endCount>> /\ promise' = "rejected"
        /\ swallowed' = swallowed
    /\ pc' = "done"
    /\ UNCHANGED <<request, dest, tracker, caught, fault>>

\* Lines 92-99: the outer catch logs, writes the 500 and swallows a failure
\* of writing it; the handler returns.
Catch ==
    /\ pc = "catch"
    /\ statusCode' = 500
    /\ \E o \in WriteOutcomes :
        /\ headers' = IF o = "setHeaderThrows" THEN headers
                      ELSE [headers EXCEPT !.contentType = TextPlain]
        /\ IF o = "ok"
           THEN body' = Plain("Server error") /\ endCount' = endCount + 1
           ELSE UNCHANGED <<body, endCount>>
        /\ swallowed' = (o # "ok")
    /\ pc' = "done"
    /\ promise' = "resolved"
    /\ UNCHANGED <<request, dest, tracker, caught, fault>>

\* The handler's steps from the await on: the continuation of line 80 and
\* the synchronous code after it.
Continuation == Resume \/ Redirect \/ Catch

Next ==
    \/ Start
    \/ Normalize
    \/ Allow
    \/ Track
    \/ Resume
    \/ Redirect
    \/ Catch
    \/ Throw
    \/ TrackerRespond
    \/ TrackerError
    \/ TimerFire

Spec == Init /\ [][Next]_vars

\* The event loop runs a due timer, and runs the handler's continuation once
\* the awaited promise has settled; the tracker is free never to answer.
FairSpec == Spec /\ WF_vars(Continuation) /\ WF_vars(TimerFire)

\* ---------------------------------------------------------- properties
\* The request's dest, and the destination normalized from it, lie in the
\* domain the URL parser is modelled on.
InDomain(raw) ==
    Falsy(raw) \/ raw = Null
    \/ LET decoded == IF decodeThrows(raw) THEN raw ELSE decodeURIComponent(raw)
           schemed == IF HasScheme(decoded) THEN decoded ELSE Https \o decoded
       IN  URLParse(schemed).domain

DomainClosed == InDomain(rawDest) /\ InDomain(dest)

\* The request's dest is accepted by normalization.
Valid == normalizeDest(rawDest) # Null

\* The hostname of the request's normalized destination.
Host == destHostname(normalizeDest(rawDest))

\* host equals entry, or host is some prefix followed by "." and entry.
EqualsOrSubdomain(host, entry) ==
    host = entry
    \/ \E k \in 1..Len(host) : host[k] = "." /\ Drop(host, k) = entry

OnList(host, list) == \E i \in 1..Len(list) : EqualsOrSubdomain(host, list[i])

\* The request passes dest validation and the allowlist check.
Passed ==
    Valid /\ (trim(ALLOWED_DOMAINS) = <<>> \/ OnList(Host, allowedList(ALLOWED_DOMAINS)))

HostIo == <<"h", "o", "s", "t", ".", "i", "o">>

\* C1 (as amended): the handler emits a response at most once, and when it
\* has returned it has emitted exactly one response unless the outer catch
\* was entered and writing the 500 failed too.
C1_OnceUnlessThe500WriteFails ==
    /\ endCount <= 1
    /\ pc = "done" => (endCount = 1 <=> ~swallowed)

\* C1 witness: res.end of the 302 threw after Location was set, and the
\* outer catch emitted the 500, the only response.
C1_Witness ==
    /\ pc = "done" /\ caught /\ fault = "write"
    /\ headers.location # NoHeader /\ statusCode = 500 /\ endCount = 1

\* C1 as stated: whatever the response-writing calls do, the handler that
\* has returned has emitted exactly one response.
C1_ExactlyOnceAlways == pc = "done" => endCount = 1

\* C2: a request whose dest passes normalization and the allowlist, and
\* whose response-writing calls do not fail, is answered 302 with Location
\* and link equal to the normalized destination, whatever became of the
\* tracker call.
C2_RedirectWhateverTheTrackerDoes ==
    (pc = "done" /\ fault = "none" /\ Passed) =>
        /\ statusCode = 302
        /\ endCount = 1
        /\ headers = [location |-> normalizeDest(rawDest), contentType |-> TextHtml]
        /\ body = RedirectPage(normalizeDest(rawDest))

\* C2 witness: the tracker call failed with a network error and the 302 was sent.
C2_Witness ==
    pc = "done" /\ fetchState = "rejected" /\ statusCode = 302 /\ endCount = 1

\* C3: the 302 is written only when the tracker call is no longer in flight;
\* a call is aborted only by the timer firing; the handler suspended on the
\* call always returns, and, the response-writing calls not failing, its
\* response is the 302.
C3_RedirectAfterTrackerOrTimeout ==
    /\ [](pc \in {"redirect", "catch", "done"} => fetchState # "inflight")
    /\ [](fetchState = "aborted" => timeout.state = "fired")
    /\ (pc = "await") ~> (pc = "done")
    /\ []((pc = "done" /\ fault = "none" /\ fetchCalls = 1)
            => (statusCode = 302 /\ endCount = 1))

\* C3 witness: the tracker never replied, the timer fired and aborted the
\* call, and the 302 was sent.
C3_Witness ==
    /\ pc = "done" /\ fetchState = "aborted" /\ timeout.state = "fired"
    /\ statusCode = 302 /\ endCount = 1

\* C4: with ALLOWED_DOMAINS non-blank, a validated destination whose
\* response-writing calls do not fail is answered 302 if its hostname equals
\* a list entry or ends with "." and the entry, and 403 "Destination domain
\* not allowed" otherwise; with the list "host.io", s.host.io is redirected
\* and xhost.io is denied.
C4_AllowlistExactOrSubdomain ==
    (pc = "done" /\ fault = "none" /\ Valid /\ trim(ALLOWED_DOMAINS) # <<>>) =>
        /\ OnList(Host, allowedList(ALLOWED_DOMAINS))
              => (statusCode = 302 /\ endCount = 1)
        /\ ~OnList(Host, allowedList(ALLOWED_DOMAINS))
              => /\ statusCode = 403 /\ endCount = 1
                 /\ body = Plain("Destination domain not allowed")
        /\ (ALLOWED_DOMAINS = HostIo /\ Host = <<"s", ".">> \o HostIo)
              => statusCode = 302
        /\ (ALLOWED_DOMAINS = HostIo /\ Host = <<"x">> \o HostIo)
              => statusCode = 403

\* C4 witness: the list is "host.io" and xhost.io was denied.
C4_Witness ==
    /\ pc = "done" /\ ALLOWED_DOMAINS = HostIo /\ Valid /\ Host = <<"x">> \o HostIo
    /\ statusCode = 403 /\ endCount = 1

\* C5 as stated: when the list obtained from ALLOWED_DOMAINS has no entry,
\* the handler never answers 403.
C5_EmptyListAllowsAll ==
    (allowedList(ALLOWED_DOMAINS) = <<>> /\ endCount = 1) => statusCode # 403

\* The request's dest, percent-decoded once and given the default scheme,
\* parses as an http or https URL.
ParsesAsHttp ==
    LET raw     == rawDest
        decoded == IF decodeThrows(raw) THEN raw ELSE decodeURIComponent(raw)
        schemed == IF HasScheme(decoded) THEN decoded ELSE Https \o decoded
        u       == URLParse(schemed)
    IN  ~u.failure /\ IsHttpScheme(u.scheme)

\* s is an absolute URL of scheme http or https: the scheme, "://", a host.
AbsoluteHttpUrl(s) ==
    \E k \in {7, 8} :
        /\ Len(s) > k
        /\ SubSeq(s, 1, k) \in {<<"h", "t", "t", "p", ":", "/", "/">>,
                                <<"h", "t", "t", "p", "s", ":", "/", "/">>}
        /\ s[k + 1] \notin {"/", ":"}

\* C6: the response-writing calls not failing, an empty or absent dest is
\* answered 400 "Missing dest parameter" and a non-empty dest that does not
\* parse as an http or https URL 400 "Invalid dest URL"; every 302 emitted
\* carries a Location that is an absolute http or https URL.
C6_Validation ==
    /\ (pc = "done" /\ fault = "none" /\ Falsy(rawDest)) =>
          (statusCode = 400 /\ endCount = 1 /\ body = Plain("Missing dest parameter"))
    /\ (pc = "done" /\ fault = "none" /\ ~Falsy(rawDest) /\ ~ParsesAsHttp) =>
          (statusCode = 400 /\ endCount = 1 /\ body = Plain("Invalid dest URL"))
    /\ (statusCode = 302 /\ endCount = 1) => AbsoluteHttpUrl(headers.location)

\* C6 witness: a dest of another scheme (ssh://...) was answered 400.
C6_Witness ==
    /\ pc = "done" /\ ~Falsy(rawDest) /\ HasScheme(rawDest) /\ ~ParsesAsHttp
    /\ statusCode = 400 /\ body = Plain("Invalid dest URL") /\ endCount = 1

\* C7 as stated: normalizing the URL string normalizeDest returned yields
\* that string again.
C7_NormalizeIdempotent ==
    dest # Null => normalizeDest(dest) = dest

\* C8: fetch is called at most once; it is called only with TRACKER_URL set
\* and the request past validation and the allowlist; and a handler that
\* returned without an unexpected failure in the validation code has called
\* it whenever TRACKER_URL is set and the request passed; no call is made
\* on a 400 or 403 path.
C8_OneCallIffTrackerAndPassed ==
    /\ fetchCalls <= 1
    /\ fetchCalls = 1 => (TRACKER_URL # <<>> /\ Passed)
    /\ (pc = "done" /\ fault # "internal" /\ TRACKER_URL # <<>> /\ Passed)
          => fetchCalls = 1
    /\ statusCode \in {400, 403} => fetchCalls = 0

\* C8 witness: the tracker was called once and the redirect was sent.
C8_Witness ==
    pc = "done" /\ fetchCalls = 1 /\ fetchState = "fulfilled" /\ statusCode = 302

\* C9 (as amended): a failure is always caught; when the handler has
\* returned after one and writing the 500 did not fail, the response is the
\* 500 "Server error" in plain text; the handler's promise is never rejected
\* and is resolved once the handler has returned.
C9_CaughtAnd500UnlessItsWriteFails ==
    /\ fault # "none" => (caught /\ pc \in {"catch", "done"})
    /\ (pc = "done" /\ caught /\ ~swallowed) =>
          /\ statusCode = 500 /\ endCount = 1
          /\ body = Plain("Server error") /\ headers.contentType = TextPlain
    /\ promise # "rejected"
    /\ pc = "done" => promise = "resolved"

\* C9 witness: an unexpected failure in the validation code was answered 500.
C9_Witness ==
    /\ pc = "done" /\ fault = "internal" /\ statusCode = 500 /\ endCount = 1
    /\ promise = "resolved"

\* C9 as stated: every failure that reaches the outer catch results in a 500
\* "Server error" response.
C9_FailureAlwaysAnswered500 ==
    (pc = "done" /\ caught) =>
        (statusCode = 500 /\ endCount = 1 /\ body = Plain("Server error"))

\* C10 as stated: once the response is emitted the timer of the tracker call
\* is no longer pending.
C10_NoTimerPendingAfterResponse ==
    endCount >= 1 => timeout.state # "armed"

====
